---- MODULE Spec2Model ----
(***************************************************************************)
(* ghttp: generic JSON handler adapters (handlers.go) and the chi          *)
(* Swagger 2.0 document generator (package chi: HandlerFunc,               *)
(* initializeDoc, addDefinition, getName, getProperty).                    *)
(*                                                                         *)
(* Strings are TLA+ strings (sequences of characters): Len, SubSeq and \o  *)
(* are the sequence operators, so strings.ReplaceAll, strings.Split, the   *)
(* path-parameter regexp and the JSON number scanner are computed          *)
(* character by character.                                                 *)
(***************************************************************************)
EXTENDS Integers, Sequences, FiniteSets, TLC

\* ------------------------------------------------------------------ bounds

\* Frames the goroutine stack holds before the runtime aborts the process
\* with "stack overflow" (getProperty is not tail recursive).
MaxStack == 7

\* Routes one walk of the router yields.
MaxRoutes == 2

\* Concurrent requests to the document endpoint.
NumRequests == 2

\* Requests served by the JSONPayloadHandler.
MaxPayloadRequests == 2

\* ----------------------------------------------------------------- strings

Char(s, i) == SubSeq(s, i, i)

\* s[i-1:] starts with pre (strings.HasPrefix).
HasPrefixAt(s, pre, i) ==
    i + Len(pre) - 1 <= Len(s) /\ SubSeq(s, i, i + Len(pre) - 1) = pre

\* strings.Index(s, sep) + 1 searched from position i on; 0 when absent.
RECURSIVE IndexFrom(_, _, _)
IndexFrom(s, sep, i) ==
    IF i + Len(sep) - 1 > Len(s) THEN 0
    ELSE IF SubSeq(s, i, i + Len(sep) - 1) = sep THEN i
    ELSE IndexFrom(s, sep, i + 1)

\* strings.ReplaceAll(s, old, new), old not empty.
RECURSIVE ReplaceAll(_, _, _)
ReplaceAll(s, old, new) ==
    LET k == IndexFrom(s, old, 1) IN
    IF k = 0 THEN s
    ELSE SubSeq(s, 1, k - 1) \o new
         \o ReplaceAll(SubSeq(s, k + Len(old), Len(s)), old, new)

\* strings.Split(s, sep)[0]: the text before the first sep, all of s without.
SplitFirst(s, sep) ==
    LET k == IndexFrom(s, sep, 1) IN
    IF k = 0 THEN s ELSE SubSeq(s, 1, k - 1)

\* reflect.StructTag.Get(key) on a conventionally formatted tag
\* (key:"value" pairs separated by spaces); "" when the key is absent.
RECURSIVE TagGetFrom(_, _, _)
TagGetFrom(tag, key, i) ==
    LET pre == key \o ":\""
        k   == IndexFrom(tag, pre, i)
    IN  IF k = 0 THEN ""
        ELSE IF k = 1 \/ Char(tag, k - 1) = " "
        THEN LET from == k + Len(pre)
                 q    == IndexFrom(tag, "\"", from)
             IN  IF q = 0 THEN "" ELSE SubSeq(tag, from, q - 1)
        ELSE TagGetFrom(tag, key, k + 1)

TagGet(tag, key) == TagGetFrom(tag, key, 1)

\* ---------------------------------------------------------- reflect.Type

\* A type descriptor: kind (reflect.Kind), the declaring package's name and
\* the type's name ("" for unnamed types), and the element type (a sequence
\* of length 0 or 1) of a pointer, array, slice, map or chan.
TypeOf(kind, pkg, name, elem) ==
    [kind |-> kind, pkg |-> pkg, name |-> name, elem |-> elem]

\* reflect.TypeOf(v) of a nil interface value: a nil reflect.Type.
NilType == TypeOf("nil", "", "", <<>>)

Predeclared(kind, name) == TypeOf(kind, "", name, <<>>)
PointerTo(t) == TypeOf("Pointer", "", "", <<t>>)
SliceOf(t)   == TypeOf("Slice", "", "", <<t>>)
ArrayOf(t)   == TypeOf("Array", "", "", <<t>>)
MapOf(t)     == TypeOf("Map", "", "", <<t>>)
ChanOf(t)    == TypeOf("Chan", "", "", <<t>>)
StructType(pkg, name) == TypeOf("Struct", pkg, name, <<>>)

BoolT    == Predeclared("Bool", "bool")
IntT     == Predeclared("Int", "int")
Int8T    == Predeclared("Int8", "int8")
Int16T   == Predeclared("Int16", "int16")
Int32T   == Predeclared("Int32", "int32")
Int64T   == Predeclared("Int64", "int64")
UintT    == Predeclared("Uint", "uint")
Uint8T   == Predeclared("Uint8", "uint8")
Uint16T  == Predeclared("Uint16", "uint16")
Uint32T  == Predeclared("Uint32", "uint32")
Uint64T  == Predeclared("Uint64", "uint64")
UintptrT == Predeclared("Uintptr", "uintptr")
Float32T == Predeclared("Float32", "float32")
Float64T == Predeclared("Float64", "float64")
Complex64T  == Predeclared("Complex64", "complex64")
Complex128T == Predeclared("Complex128", "complex128")
StringT  == Predeclared("String", "string")
UnsafePointerT == TypeOf("UnsafePointer", "unsafe", "Pointer", <<>>)
FuncT    == TypeOf("Func", "", "", <<>>)
EmptyInterfaceT == TypeOf("Interface", "", "", <<>>)
ErrorT   == Predeclared("Interface", "error")

\* The two types getProperty special-cases by their String().
UUIDT       == TypeOf("Array", "uuid", "UUID", <<Uint8T>>)
DateStringT == TypeOf("String", "date", "DateString", <<>>)

\* Struct types of an application.
WidgetT      == StructType("model", "Widget")
GadgetT      == StructType("model", "Gadget")
UntaggedT    == StructType("model", "Untagged")
MixedT       == StructType("model", "Mixed")
PtrBadT      == StructType("model", "PtrBad")
NodeT        == StructType("model", "Node")
TreeT        == StructType("model", "Tree")
HolderT      == StructType("model", "Holder")
BadCycleT    == StructType("model", "BadCycle")
EventT       == StructType("model", "Event")
OtherWidgetT == StructType("other", "Widget")
OtherNodeT   == StructType("other", "Node")
PageT        == StructType("model", "Page[app/model.Item]")
NoFieldsT    == StructType("", "")

Field(name, tag, type) == [name |-> name, tag |-> tag, type |-> type]

\* t.NumField() / t.Field(i): the fields of a struct type in declaration order.
StructFields(t) ==
    CASE t = WidgetT ->
           << Field("ID", "json:\"id\"", StringT),
              Field("Count", "json:\"count\"", IntT) >>
      [] t = GadgetT ->
           << Field("Name", "json:\"name,omitempty\"", StringT),
              Field("Tags", "json:\"tags\"", SliceOf(StringT)),
              Field("Owner", "db:\"owner_id\" json:\"owner\"", PointerTo(WidgetT)) >>
      [] t = UntaggedT ->
           << Field("A", "", IntT), Field("B", "", StringT) >>
      [] t = MixedT ->
           << Field("Ok", "json:\"ok\"", BoolT),
              Field("Ch", "json:\"ch\"", ChanOf(IntT)),
              Field("M", "json:\"m\"", MapOf(IntT)),
              Field("Fn", "json:\"fn\"", FuncT) >>
      [] t = PtrBadT ->
           << Field("Name", "json:\"name\"", StringT),
              Field("P", "json:\"p\"", PointerTo(MapOf(IntT))) >>
      [] t = NodeT ->
           << Field("Val", "json:\"val\"", IntT),
              Field("Next", "json:\"next\"", PointerTo(NodeT)) >>
      [] t = TreeT ->
           << Field("Kids", "json:\"kids\"", SliceOf(TreeT)) >>
      [] t = HolderT ->
           << Field("Label", "json:\"label\"", StringT),
              Field("N", "json:\"n\"", NodeT) >>
      [] t = BadCycleT ->
           << Field("C", "json:\"c\"", PointerTo(ChanOf(IntT))),
              Field("Next", "json:\"next\"", PointerTo(BadCycleT)) >>
      [] t = EventT ->
           << Field("ID", "json:\"id\"", UUIDT),
              Field("On", "json:\"on\"", DateStringT),
              Field("Until", "json:\"until,omitempty\"", PointerTo(DateStringT)) >>
      [] t = OtherWidgetT ->
           << Field("Title", "json:\"title\"", StringT) >>
      [] t = OtherNodeT ->
           << Field("Val", "json:\"val\"", IntT) >>
      [] t = PageT ->
           << Field("Items", "json:\"items\"", SliceOf(StringT)),
              Field("Total", "json:\"total\"", Uint32T) >>
      [] OTHER -> << >>

\* t.Elem()
Elem(t) == t.elem[1]

\* t.Name()
Name(t) == t.name

\* t.String(): a named type prints as pkg.Name, an unnamed one as its type
\* literal (every unnamed array type of the model has length 2, every map
\* a string key).
RECURSIVE String(_)
String(t) ==
    IF t.name # "" THEN (IF t.pkg = "" THEN t.name ELSE t.pkg \o "." \o t.name)
    ELSE CASE t.kind = "Pointer" -> "*" \o String(Elem(t))
           [] t.kind = "Slice" -> "[]" \o String(Elem(t))
           [] t.kind = "Array" -> "[2]" \o String(Elem(t))
           [] t.kind = "Map" -> "map[string]" \o String(Elem(t))
           [] t.kind = "Chan" -> "chan " \o String(Elem(t))
           [] t.kind = "Func" -> "func()"
           [] t.kind = "Interface" -> "interface {}"
           [] OTHER -> "struct {}"

\* ------------------------------------------------------------ spec.Schema

NoProps == [k \in {} |-> 0]

\* A spec.Schema value: Type ("" when unset), Format, Nullable, Items (a
\* sequence of length 0 or 1: in the heap the address of the item schema,
\* in a stored document the item schema itself) and Properties (by key).
\* hasProps tells an allocated, possibly empty, Properties map from none.
Schema(type, format) ==
    [type |-> type, format |-> format, nullable |-> FALSE,
     items |-> << >>, props |-> NoProps, hasProps |-> FALSE]

BooleanProperty == Schema("boolean", "")
Int8Property    == Schema("integer", "int8")
Int16Property   == Schema("integer", "int16")
Int32Property   == Schema("integer", "int32")
Int64Property   == Schema("integer", "int64")
Float32Property == Schema("number", "float")
Float64Property == Schema("number", "double")
StringProperty  == Schema("string", "")
StrFmtProperty(format) == Schema("string", format)
DateProperty    == Schema("string", "date")

\* spec.ArrayProperty(items): a nil item schema gives an array schema
\* without items.
ArrayProperty(items) ==
    [Schema("array", "") EXCEPT !.items = IF items = 0 THEN << >> ELSE << items >>]

\* spec.Schema{SchemaProps: spec.SchemaProps{Properties: spec.SchemaProperties{}}}
ObjectSchema(props) ==
    [Schema("", "") EXCEPT !.props = props, !.hasProps = TRUE]

\* m[key] = value on a map held as a function.
MapSet(m, key, value) ==
    [k \in DOMAIN m \cup {key} |-> IF k = key THEN value ELSE m[k]]

\* A call's outcome: st is "ok" (it returned p, the address of a schema in
\* heap h, 0 for nil), "panic" (a run-time panic unwinds it) or "overflow"
\* (the goroutine stack is exhausted and the process aborts).
Returned(h, p) == [st |-> "ok", h |-> h, p |-> p]
Panicked(h)    == [st |-> "panic", h |-> h, p |-> 0]

\* &spec.Schema{...}: a fresh heap cell.
New(h, schema) == Returned(Append(h, schema), Len(h) + 1)

\* A depth guard that gives up with "no schema" instead of exhausting the stack.
DepthGuard(h) == Returned(h, 0)

\* Entering getProperty with no stack left: Go's fatal "stack overflow".
StackOverflow(h) == [st |-> "overflow", h |-> h, p |-> 0]

\* getName without its pointer case.
getNameNoPointerCase(t) == ReplaceAll(Name(t), "/", ".")

\* getName (a nil reflect.Type never gets here: see addDefinition).
RECURSIVE getName(_)
getName(t) ==
    IF t.kind = "Pointer" THEN "*" \o getName(Elem(t))
    ELSE ReplaceAll(Name(t), "/", ".")

\* The reflect.Pointer case after the recursive call: property.Nullable = true
\* through the returned pointer, a nil dereference when it is nil.
PointerCase(r) ==
    IF r.st # "ok" THEN r
    ELSE IF r.p = 0 THEN Panicked(r.h)
    ELSE Returned([r.h EXCEPT ![r.p].nullable = TRUE], r.p)

\* The reflect.Array and reflect.Slice cases after the recursive call.
ArrayCase(r) ==
    IF r.st # "ok" THEN r ELSE New(r.h, ArrayProperty(r.p))

\* The property key of a struct field: strings.Split(f.Tag.Get("json"), ",")[0]
FieldKey(f) == SplitFirst(TagGet(f.tag, "json"), ",")

RECURSIVE getProperty(_, _, _)
RECURSIVE structFields(_, _, _, _, _)

\* The loop of the reflect.Struct case from field i on, props being the
\* Properties map filled so far; d is the stack left for the calls it makes.
structFields(fs, i, h, props, d) ==
    IF i > Len(fs) THEN New(h, ObjectSchema(props))
    ELSE LET r == getProperty(fs[i].type, h, d) IN
         IF r.st # "ok" THEN r
         ELSE structFields(fs, i + 1, r.h,
                  IF r.p # 0 THEN MapSet(props, FieldKey(fs[i]), r.h[r.p]) ELSE props,
                  d)

\* getProperty(t) on heap h with d stack frames left.
getProperty(t, h, d) ==
    IF d = 0 THEN StackOverflow(h)
    ELSE IF String(t) = "uuid.UUID" THEN New(h, StrFmtProperty("uuid"))
    ELSE IF String(t) = "date.DateString" THEN New(h, DateProperty)
    ELSE CASE t.kind = "Bool" -> New(h, BooleanProperty)
           [] t.kind = "Int" -> New(h, Int64Property)
           [] t.kind = "Int8" -> New(h, Int8Property)
           [] t.kind = "Int16" -> New(h, Int16Property)
           [] t.kind = "Int32" -> New(h, Int32Property)
           [] t.kind = "Int64" -> New(h, Int64Property)
           [] t.kind = "Uint" -> New(h, Int64Property)
           [] t.kind = "Uint8" -> New(h, Int8Property)
           [] t.kind = "Uint16" -> New(h, Int16Property)
           [] t.kind = "Uint32" -> New(h, Int32Property)
           [] t.kind = "Uint64" -> New(h, Int64Property)
           [] t.kind = "Float32" -> New(h, Float32Property)
           [] t.kind = "Float64" -> New(h, Float64Property)
           [] t.kind = "Array" -> ArrayCase(getProperty(Elem(t), h, d - 1))
           [] t.kind = "Pointer" -> PointerCase(getProperty(Elem(t), h, d - 1))
           [] t.kind = "Slice" -> ArrayCase(getProperty(Elem(t), h, d - 1))
           [] t.kind = "String" -> New(h, StringProperty)
           [] t.kind = "Struct" -> structFields(StructFields(t), 1, h, NoProps, d - 1)
           [] OTHER -> Returned(h, 0)

\* The schema at address p with every Items pointer followed: the value a
\* reader of the document sees.
RECURSIVE Deref(_, _)
Deref(h, s) ==
    [s EXCEPT !.items = IF s.items = << >> THEN << >> ELSE << Deref(h, h[s.items[1]]) >>,
              !.props = [k \in DOMAIN s.props |-> Deref(h, s.props[k])]]

\* getProperty(t) called with the whole stack and an empty heap: the outcome
\* and, when a schema was returned, its value.
Convert(t) ==
    LET r == getProperty(t, << >>, MaxStack) IN
    [st |-> r.st, nil |-> (r.st # "ok" \/ r.p = 0),
     schema |-> IF r.st = "ok" /\ r.p # 0 THEN Deref(r.h, r.h[r.p]) ELSE Schema("", "")]

\* spec.Definitions: no entry.
NoDefinitions == [n \in {} |-> 0]

\* addDefinition(doc, t) on the Definitions table defs: the outcome and the
\* table afterwards. getName(t) calls t.Kind(), a nil dereference for a nil
\* reflect.Type; called says whether getProperty was called.
addDefinition(defs, t) ==
    IF t = NilType THEN [st |-> "panic", defs |-> defs, called |-> FALSE]
    ELSE IF getName(t) \in DOMAIN defs THEN [st |-> "ok", defs |-> defs, called |-> FALSE]
    ELSE LET prop == Convert(t) IN
         [st |-> prop.st,
          defs |-> IF ~prop.nil THEN MapSet(defs, getName(t), prop.schema) ELSE defs,
          called |-> TRUE]

\* ------------------------------------------------------------------- state

VARIABLES
    \* the schema builder called on one type
    sInput,      \* the reflect.Type handed in
    sDefs,       \* the Definitions table addDefinition is called on
    sPc,         \* "start", then "converted" once getProperty was called
    sResult,     \* getProperty's outcome
    sAdded,      \* addDefinition's outcome, st "none" before the call
    \* the document endpoint
    pc,          \* each request's position in the handler HandlerFunc returns
    onceDone,    \* sync.Once.done
    onceM,       \* sync.Once.m: 0 when free, else the request holding it
    valid,       \* sync.OnceValue: f returned
    result,      \* sync.OnceValue: what f returned
    doc,         \* initializeDoc's doc while the walk runs
    walked,      \* the routes the walk has yielded so far
    builds,      \* how many times initializeDoc was entered
    reqDoc,      \* each request's local doc
    response,    \* each request's response as written
    aborted,     \* the process died of a stack overflow
    \* the JSON handlers
    defaultInvalidJSONPayloadHandler,
    served       \* the requests ServeHTTP has handled, in order

schemaVars == << sInput, sDefs, sPc, sResult, sAdded >>
docVars == << pc, onceDone, onceM, valid, result, doc, walked, builds, reqDoc,
              response, aborted >>
handlerVars == << defaultInvalidJSONPayloadHandler, served >>
vars == << schemaVars, docVars, handlerVars >>

\* ---------------------------------------------------------- types in reach

Wrap(S) == {PointerTo(t) : t \in S} \cup {SliceOf(t) : t \in S} \cup {ArrayOf(t) : t \in S}

PlainTypes ==
    { BoolT, IntT, Int8T, Int16T, Int32T, Int64T, UintT, Uint8T, Uint16T, Uint32T,
      Uint64T, UintptrT, Float32T, Float64T, Complex64T, Complex128T, StringT,
      UnsafePointerT, FuncT, EmptyInterfaceT, ErrorT, MapOf(IntT), ChanOf(IntT),
      UUIDT, DateStringT,
      WidgetT, GadgetT, UntaggedT, MixedT, PtrBadT, NodeT, TreeT, HolderT,
      BadCycleT, EventT, OtherWidgetT, OtherNodeT, PageT, NoFieldsT }

NestedTypes == { IntT, WidgetT, ChanOf(IntT), NodeT, UUIDT }

\* The types the schema builder is called on.
Universe == PlainTypes \cup Wrap(PlainTypes) \cup Wrap(Wrap(NestedTypes))

\* Types an earlier addDefinition may have put in the table.
SeedTypes == { WidgetT, OtherNodeT }

NoResult == [st |-> "none", nil |-> TRUE, schema |-> Schema("", "")]
NoAdded  == [st |-> "none", defs |-> NoDefinitions, called |-> FALSE]

\* ------------------------------------------------------------ the handlers

\* An http.Handler value: its implementation and the types it was built for
\* (sequences of length 0 or 1).
\*   "HandlerFunc"         a plain http.HandlerFunc
\*   "JSONHandler"         ghttp.JSONHandler[O]
\*   "JSONPayloadHandler"  ghttp.JSONPayloadHandler[I, O]
\*   "custom"              an application's handler type that declares
\*                         PayloadType (when I is given) and ResponseType
\*                         (when O is given) itself
Handler(impl, I, O) == [impl |-> impl, I |-> I, O |-> O]

PlainHandler == Handler("HandlerFunc", << >>, << >>)
NewJSONHandler(O) == Handler("JSONHandler", << >>, << O >>)
NewJSONPayloadHandler(I, O) == Handler("JSONPayloadHandler", << I >>, << O >>)

\* var v T; reflect.TypeOf(v): nil when T is an interface type.
TypeOfZero(t) == IF t.kind = "Interface" THEN NilType ELSE t

\* The methods of the handler's dynamic type. JSONHandler declares ServeHTTP
\* and ResponseType; JSONPayloadHandler declares ServeHTTP alone (PayloadType
\* and ResponseType are methods of JSONPayloadHandlerFunc, a type without
\* ServeHTTP).
MethodSet(h) ==
    CASE h.impl = "JSONHandler" -> {"ServeHTTP", "ResponseType"}
      [] h.impl = "JSONPayloadHandler" -> {"ServeHTTP"}
      [] h.impl = "custom" ->
           {"ServeHTTP"} \cup (IF h.I # << >> THEN {"PayloadType"} ELSE {})
                         \cup (IF h.O # << >> THEN {"ResponseType"} ELSE {})
      [] OTHER -> {"ServeHTTP"}

\* handler.(ghttp.PayloadTyper) and handler.(ghttp.ResponseTyper) succeed.
IsPayloadTyper(h)  == "PayloadType" \in MethodSet(h)
IsResponseTyper(h) == "ResponseType" \in MethodSet(h)

\* pTyper.PayloadType() and rTyper.ResponseType()
PayloadType(h)  == IF h.impl = "custom" THEN h.I[1] ELSE TypeOfZero(h.I[1])
ResponseType(h) == IF h.impl = "custom" THEN h.O[1] ELSE TypeOfZero(h.O[1])

\* ------------------------------------------------------------ the document

Slots == {"Get", "Put", "Post", "Delete", "Options", "Head", "Patch"}

\* spec.PathItem{}: every method slot nil.
EmptyPathItem == [s \in Slots |-> << >>]

NoPaths == [r \in {} |-> 0]

\* The zero spec.Swagger and the one initializeDoc starts from.
ZeroDoc  == [swagger |-> "", definitions |-> NoDefinitions, paths |-> NoPaths]
EmptyDoc == [swagger |-> "2.0", definitions |-> NoDefinitions, paths |-> NoPaths]

\* spec.NewOperation("")
NewOperation == [parameters |-> << >>, responses |-> [c \in {} |-> 0]]

\* spec.BodyParam(name, spec.RefProperty(ref)) and spec.PathParam(name)
BodyParam(name, ref) == [name |-> name, in |-> "body", required |-> FALSE, ref |-> ref]
PathParam(name) == [name |-> name, in |-> "path", required |-> TRUE, ref |-> ""]

\* operation.AddParam(p): a parameter of the same name and place is replaced.
AddParam(op, p) ==
    IF \E i \in 1..Len(op.parameters) :
           op.parameters[i].name = p.name /\ op.parameters[i].in = p.in
    THEN LET i == CHOOSE j \in 1..Len(op.parameters) :
                      /\ op.parameters[j].name = p.name /\ op.parameters[j].in = p.in
                      /\ \A k \in 1..(j - 1) :
                            ~(op.parameters[k].name = p.name /\ op.parameters[k].in = p.in)
         IN  [op EXCEPT !.parameters[i] = p]
    ELSE [op EXCEPT !.parameters = Append(@, p)]

\* operation.RespondsWith(code, resp), resp.Schema a reference.
RespondsWith(op, code, ref) ==
    [op EXCEPT !.responses = MapSet(@, code, [ref |-> ref])]

\* pathParamPattern.FindAllStringSubmatch(route, -1), each match's group 1:
\* the leftmost non-overlapping matches of {([^}]+)} from position i on.
RECURSIVE PathParams(_, _)
PathParams(route, i) ==
    LET k == IndexFrom(route, "{", i) IN
    IF k = 0 THEN << >>
    ELSE LET q == IndexFrom(route, "}", k + 1) IN
         IF q = 0 THEN << >>
         ELSE IF q = k + 1 THEN PathParams(route, k + 1)
         ELSE << SubSeq(route, k + 1, q - 1) >> \o PathParams(route, q + 1)

RECURSIVE AddPathParams(_, _, _)
AddPathParams(op, names, i) ==
    IF i > Len(names) THEN op
    ELSE AddPathParams(AddParam(op, PathParam(names[i])), names, i + 1)

\* The slot of the switch on method; "" for a method it has no case for.
SlotOf(method) ==
    CASE method = "GET" -> "Get"
      [] method = "PUT" -> "Put"
      [] method = "POST" -> "Post"
      [] method = "DELETE" -> "Delete"
      [] method = "OPTIONS" -> "Options"
      [] method = "HEAD" -> "Head"
      [] method = "PATCH" -> "Patch"
      [] OTHER -> ""

\* The switch done on a fresh spec.PathItem{} instead of the stored one.
SetSlotOnFresh(pathItem, method, op) ==
    IF SlotOf(method) = "" THEN pathItem
    ELSE [EmptyPathItem EXCEPT ![SlotOf(method)] = << op >>]

\* pathItem := doc.Paths.Paths[route]; switch method { ... }
SetSlot(pathItem, method, op) ==
    IF SlotOf(method) = "" THEN pathItem
    ELSE [pathItem EXCEPT ![SlotOf(method)] = << op >>]

\* The function handed to chi.Walk runs on w: st its outcome so far, doc the
\* document, op the operation being filled.

\* Lines 50-53: the path item is created on the route's first sight.
WalkStart(d, route) ==
    [st |-> "ok",
     doc |-> IF route \in DOMAIN d.paths THEN d
             ELSE [d EXCEPT !.paths = MapSet(@, route, EmptyPathItem)],
     op |-> NewOperation]

\* The state after an addDefinition call with outcome a.
WithDefinition(w, a) == [w EXCEPT !.st = a.st, !.doc.definitions = a.defs]

\* Lines 60-61, skipped when addDefinition did not return.
AddBody(w, pt) ==
    IF w.st # "ok" THEN w
    ELSE [w EXCEPT !.op = AddParam(@, BodyParam(getName(pt), "#/definitions/" \o getName(pt)))]

\* Lines 55-62.
PayloadPart(w, handler) ==
    IF ~IsPayloadTyper(handler) THEN w
    ELSE AddBody(WithDefinition(w, addDefinition(w.doc.definitions, PayloadType(handler))),
                 PayloadType(handler))

\* Lines 69-71, skipped when addDefinition did not return.
AddResponse(w, rt) ==
    IF w.st # "ok" THEN w
    ELSE [w EXCEPT !.op = RespondsWith(@, 200, "#/definitions/" \o getName(rt))]

\* Lines 64-72.
ResponsePart(w, handler) ==
    IF w.st # "ok" \/ ~IsResponseTyper(handler) THEN w
    ELSE AddResponse(WithDefinition(w, addDefinition(w.doc.definitions, ResponseType(handler))),
                     ResponseType(handler))

\* Lines 85-89.
PathParamsPart(w, route) ==
    IF w.st # "ok" THEN w
    ELSE [w EXCEPT !.op = AddPathParams(@, PathParams(route, 1), 1)]

\* Lines 91-108.
SlotPart(w, method, route) ==
    IF w.st # "ok" THEN w
    ELSE [w EXCEPT !.doc.paths[route] = SetSlot(@, method, w.op)]

\* The function handed to chi.Walk, for one route.
WalkFn(d, method, route, handler) ==
    SlotPart(PathParamsPart(ResponsePart(PayloadPart(WalkStart(d, route), handler),
                                         handler),
                            route),
             method, route)

Route(method, route, handler) == [method |-> method, route |-> route, handler |-> handler]

\* An application's handler declaring both types itself.
CustomHandler(I, O) == Handler("custom", I, O)

WidgetsRoute == "/widgets/{id}"
PostsRoute   == "/users/{id}/posts/{postId}"
HealthRoute  == "/health"

\* The routes an application may have registered; chi.Walk yields each
\* (method, pattern) once, in the order of its map iteration.
RouteTable ==
    { Route("GET", WidgetsRoute, NewJSONHandler(WidgetT)),
      Route("PUT", WidgetsRoute, CustomHandler(<< WidgetT >>, << WidgetT >>)),
      Route("POST", WidgetsRoute, NewJSONPayloadHandler(WidgetT, GadgetT)),
      Route("DELETE", WidgetsRoute, PlainHandler),
      Route("PATCH", WidgetsRoute, CustomHandler(<< PointerTo(WidgetT) >>, << >>)),
      Route("OPTIONS", WidgetsRoute, PlainHandler),
      Route("HEAD", WidgetsRoute, NewJSONHandler(PointerTo(WidgetT))),
      Route("TRACE", WidgetsRoute, NewJSONHandler(EventT)),
      Route("GET", PostsRoute, NewJSONHandler(SliceOf(WidgetT))),
      Route("POST", PostsRoute, CustomHandler(<< SliceOf(GadgetT) >>, << OtherWidgetT >>)),
      Route("PUT", PostsRoute, NewJSONHandler(ChanOf(IntT))),
      Route("DELETE", PostsRoute, NewJSONHandler(PointerTo(MapOf(IntT)))),
      Route("PATCH", PostsRoute, NewJSONHandler(NodeT)),
      Route("HEAD", PostsRoute, NewJSONHandler(EmptyInterfaceT)),
      Route("CONNECT", HealthRoute, PlainHandler),
      Route("GET", HealthRoute, NewJSONHandler(GadgetT)) }

Requests == 1..NumRequests

\* ------------------------------------------------- the document endpoint

\* doSlow running f without looking at done again under the lock.
DoSlowAlwaysRuns == TRUE

\* sync.Once.doSlow, under o.m: f runs when done is still 0.
DoSlowMustRun == ~onceDone

\* encoding/json of the document: the method slots that are set, by their
\* JSON names.
JSONName(slot) ==
    CASE slot = "Get" -> "get" [] slot = "Put" -> "put" [] slot = "Post" -> "post"
      [] slot = "Delete" -> "delete" [] slot = "Options" -> "options"
      [] slot = "Head" -> "head" [] slot = "Patch" -> "patch"

MarshalPathItem(item) ==
    [m \in {JSONName(sl) : sl \in {x \in Slots : item[x] # << >>}} |->
        item[CHOOSE sl \in Slots : JSONName(sl) = m][1]]

MarshalDoc(d) ==
    [swagger |-> d.swagger, definitions |-> d.definitions,
     paths |-> [r \in DOMAIN d.paths |-> MarshalPathItem(d.paths[r])]]

NoResponse == [status |-> 0, contentType |-> "", body |-> << >>]

DocInit ==
    /\ pc = [i \in Requests |-> "idle"]
    /\ onceDone = FALSE
    /\ onceM = 0
    /\ valid = FALSE
    /\ result = ZeroDoc
    /\ doc = ZeroDoc
    /\ walked = {}
    /\ builds = 0
    /\ reqDoc = [i \in Requests |-> ZeroDoc]
    /\ response = [i \in Requests |-> NoResponse]
    /\ aborted = FALSE

\* A request reaches the handler HandlerFunc returned: doc := onceFn() begins.
Arrive(i) ==
    /\ ~aborted /\ pc[i] = "idle"
    /\ pc' = [pc EXCEPT ![i] = "onceDo"]
    /\ UNCHANGED << onceDone, onceM, valid, result, doc, walked, builds, reqDoc,
                    response, aborted >>

\* sync.Once.Do: the load of done; 0 sends the caller to doSlow.
OnceDo(i) ==
    /\ ~aborted /\ pc[i] = "onceDo"
    /\ pc' = [pc EXCEPT ![i] = IF onceDone THEN "afterDo" ELSE "doSlow"]
    /\ UNCHANGED << onceDone, onceM, valid, result, doc, walked, builds, reqDoc,
                    response, aborted >>

\* sync.Once.doSlow: o.m.Lock(), then either f (initializeDoc up to the walk)
\* or, done being set meanwhile, Unlock and return.
DoSlow(i) ==
    /\ ~aborted /\ pc[i] = "doSlow" /\ onceM = 0
    /\ IF DoSlowMustRun
       THEN /\ onceM' = i
            /\ doc' = EmptyDoc
            /\ walked' = {}
            /\ builds' = builds + 1
            /\ pc' = [pc EXCEPT ![i] = "walk"]
       ELSE /\ pc' = [pc EXCEPT ![i] = "afterDo"]
            /\ UNCHANGED << onceM, doc, walked, builds >>
    /\ UNCHANGED << onceDone, valid, result, reqDoc, response, aborted >>

\* What the walk function's outcome w does to the request and the Once.
WalkOutcome(i, r, w) ==
    /\ doc' = w.doc
    /\ walked' = walked \cup {<< r.method, r.route >>}
    /\ pc' = [pc EXCEPT ![i] = IF w.st = "panic" THEN "panicked" ELSE @]
    /\ onceDone' = (onceDone \/ w.st = "panic")
    /\ onceM' = IF w.st = "panic" THEN 0 ELSE onceM
    /\ aborted' = (w.st = "overflow")

\* chi.Walk calls the function for the next route. A panic in it leaves
\* initializeDoc and f: OnceValue keeps it, doSlow's deferred calls set done
\* and unlock, and the panic goes on into the request. A stack overflow
\* ends the process.
WalkRoute(i, r) ==
    /\ ~aborted /\ pc[i] = "walk"
    /\ Cardinality(walked) < MaxRoutes
    /\ << r.method, r.route >> \notin walked
    /\ WalkOutcome(i, r, WalkFn(doc, r.method, r.route, r.handler))
    /\ UNCHANGED << valid, result, builds, reqDoc, response >>

\* The walk is over: initializeDoc returns doc, OnceValue stores it and sets
\* valid, doSlow sets done and unlocks.
WalkEnd(i) ==
    /\ ~aborted /\ pc[i] = "walk"
    /\ result' = doc
    /\ valid' = TRUE
    /\ onceDone' = TRUE
    /\ onceM' = 0
    /\ pc' = [pc EXCEPT ![i] = "afterDo"]
    /\ UNCHANGED << doc, walked, builds, reqDoc, response, aborted >>

\* once.Do returned: panic(p) when f panicked, else doc := result.
AfterDo(i) ==
    /\ ~aborted /\ pc[i] = "afterDo"
    /\ IF valid
       THEN /\ reqDoc' = [reqDoc EXCEPT ![i] = result]
            /\ pc' = [pc EXCEPT ![i] = "encode"]
       ELSE /\ pc' = [pc EXCEPT ![i] = "panicked"]
            /\ UNCHANGED reqDoc
    /\ UNCHANGED << onceDone, onceM, valid, result, doc, walked, builds, response,
                    aborted >>

\* Content-Type, WriteHeader(200), enc.Encode(doc).
Encode(i) ==
    /\ ~aborted /\ pc[i] = "encode"
    /\ response' = [response EXCEPT ![i] =
           [status |-> 200, contentType |-> "application/json",
            body |-> << MarshalDoc(reqDoc[i]) >>]]
    /\ pc' = [pc EXCEPT ![i] = "done"]
    /\ UNCHANGED << onceDone, onceM, valid, result, doc, walked, builds, reqDoc,
                    aborted >>

SchemaIdle ==
    /\ sInput = NilType /\ sDefs = NoDefinitions /\ sPc = "off"
    /\ sResult = NoResult /\ sAdded = NoAdded

HandlersIdle ==
    /\ defaultInvalidJSONPayloadHandler = "default" /\ served = << >>

Init == DocInit /\ SchemaIdle /\ HandlersIdle

Next ==
    \/ \E i \in Requests : Arrive(i) /\ UNCHANGED << schemaVars, handlerVars >>
    \/ \E i \in Requests : OnceDo(i) /\ UNCHANGED << schemaVars, handlerVars >>
    \/ \E i \in Requests : DoSlow(i) /\ UNCHANGED << schemaVars, handlerVars >>
    \/ \E i \in Requests : \E r \in RouteTable :
          WalkRoute(i, r) /\ UNCHANGED << schemaVars, handlerVars >>
    \/ \E i \in Requests : WalkEnd(i) /\ UNCHANGED << schemaVars, handlerVars >>
    \/ \E i \in Requests : AfterDo(i) /\ UNCHANGED << schemaVars, handlerVars >>
    \/ \E i \in Requests : Encode(i) /\ UNCHANGED << schemaVars, handlerVars >>

Spec == Init /\ [][Next]_vars

\* --------------------------------------------------- the schema builder

\* The tables an earlier addDefinition call may have left.
SeedTables ==
    {NoDefinitions} \cup {addDefinition(NoDefinitions, t).defs : t \in SeedTypes}

DocIdle ==
    /\ pc = [i \in Requests |-> "off"]
    /\ onceDone = FALSE /\ onceM = 0 /\ valid = FALSE
    /\ result = ZeroDoc /\ doc = ZeroDoc /\ walked = {} /\ builds = 0
    /\ reqDoc = [i \in Requests |-> ZeroDoc]
    /\ response = [i \in Requests |-> NoResponse]
    /\ aborted = FALSE

SchemaInit ==
    /\ sInput \in Universe
    /\ sDefs \in SeedTables
    /\ sPc = "start"
    /\ sResult = NoResult
    /\ sAdded = NoAdded
    /\ DocIdle /\ HandlersIdle

\* getProperty(sInput)
GetPropertyCall ==
    /\ sPc = "start"
    /\ sResult' = Convert(sInput)
    /\ sPc' = "converted"
    /\ UNCHANGED << sInput, sDefs, sAdded, docVars, handlerVars >>

\* addDefinition(doc, sInput) with doc.Definitions = sDefs
AddDefinitionCall ==
    /\ sAdded = NoAdded
    /\ sAdded' = addDefinition(sDefs, sInput)
    /\ UNCHANGED << sInput, sDefs, sPc, sResult, docVars, handlerVars >>

SchemaNext == GetPropertyCall \/ AddDefinitionCall

SpecSchema == SchemaInit /\ [][SchemaNext]_vars

\* ----------------------------------------------------- JSONPayloadHandler

IsSpace(c) == c \in {" ", "\t", "\n", "\r"}
Digits == <<"0", "1", "2", "3", "4", "5", "6", "7", "8", "9">>
IsDigit(c) == \E k \in 1..10 : Digits[k] = c
DigitValue(c) == (CHOOSE k \in 1..10 : Digits[k] = c) - 1

\* The first position from i on that holds no white space (Len(s) + 1 at the end).
RECURSIVE SkipSpace(_, _)
SkipSpace(s, i) ==
    IF i <= Len(s) /\ IsSpace(Char(s, i)) THEN SkipSpace(s, i + 1) ELSE i

\* The first position from i on that holds no digit.
RECURSIVE SkipDigits(_, _)
SkipDigits(s, i) ==
    IF i <= Len(s) /\ IsDigit(Char(s, i)) THEN SkipDigits(s, i + 1) ELSE i

\* strconv.Atoi of a digit string, acc the value of the digits read.
RECURSIVE Atoi(_, _, _)
Atoi(s, i, acc) ==
    IF i > Len(s) THEN acc ELSE Atoi(s, i + 1, 10 * acc + DigitValue(Char(s, i)))

\* strconv.Itoa
RECURSIVE Itoa(_)
Itoa(n) ==
    IF n < 0 THEN "-" \o Itoa(0 - n)
    ELSE IF n < 10 THEN Digits[n + 1]
    ELSE Itoa(n \div 10) \o Digits[(n % 10) + 1]

Decoded(v)  == [err |-> FALSE, value |-> v]
DecodeError == [err |-> TRUE, value |-> 0]

\* The JSON number that starts at i (after an optional minus sign at sign):
\* an integer literal decodes into the int; a fraction or an exponent after
\* it does not (a type or a syntax error). What follows the literal is left
\* in the decoder's buffer.
DecodeNumber(s, sign, i) ==
    IF i > Len(s) \/ ~IsDigit(Char(s, i)) THEN DecodeError
    ELSE LET e == IF Char(s, i) = "0" THEN i + 1 ELSE SkipDigits(s, i) IN
         IF e <= Len(s) /\ Char(s, e) \in {".", "e", "E"} THEN DecodeError
         ELSE Decoded(sign * Atoi(SubSeq(s, i, e - 1), 1, 0))

\* json.NewDecoder(r.Body).Decode(&payload) for payload of type int: white
\* space is skipped, null leaves payload at its zero value, an integer
\* literal sets it, anything else (no value at all, another kind of value,
\* broken syntax) is an error.
DecodeAt(s, i) ==
    IF i > Len(s) THEN DecodeError
    ELSE IF HasPrefixAt(s, "null", i) THEN Decoded(0)
    ELSE IF Char(s, i) = "-" THEN DecodeNumber(s, -1, i + 1)
    ELSE DecodeNumber(s, 1, i)

Decode(body) == DecodeAt(body, SkipSpace(body, 1))

\* A value handed to the encoder: a string, an int, or a value encoding/json
\* has no encoding for (a channel, a func, a NaN).
StringValue(str) == [kind |-> "string", str |-> str, int |-> 0]
IntValue(n)      == [kind |-> "int", str |-> "", int |-> n]
ChanValue        == [kind |-> "chan", str |-> "", int |-> 0]

\* json.NewEncoder(w).Encode(v): the text written, nothing on an error.
Marshal(v) ==
    CASE v.kind = "string" -> [err |-> FALSE, text |-> "\"" \o v.str \o "\"" \o "\n"]
      [] v.kind = "int" -> [err |-> FALSE, text |-> Itoa(v.int) \o "\n"]
      [] OTHER -> [err |-> TRUE, text |-> ""]

\* The InvalidJSONPayloadHandler values of an application, by name: the
\* package's default and two an application sets.
Fallbacks == {"default", "badRequest", "asChannel"}

\* fn(err)
FallbackResult(fn) ==
    CASE fn = "default" -> [resp |-> StringValue("Invalid payload"), status |-> 502]
      [] fn = "badRequest" -> [resp |-> StringValue("bad request"), status |-> 400]
      [] fn = "asChannel" -> [resp |-> ChanValue, status |-> 422]

\* h.handlerFunc(w, r, payload) of the application.
Callback(payload) ==
    [resp |-> IntValue(payload + 1), status |-> IF payload < 0 THEN 422 ELSE 200]

\* The request bodies sent.
Bodies ==
    { "7", "42", " 7", "-3", "0", "null", "7x", "", " ", "x", "{", "7.5", "1e2",
      "\"7\"", "-", "nul" }

SetDefaultInvalidJSONPayloadHandler(fn) ==
    /\ defaultInvalidJSONPayloadHandler' = fn
    /\ UNCHANGED << served, schemaVars, docVars >>

\* A branch that calls handlerFunc whatever Decode returned.
CallsHandlerFuncAlways(dec) == TRUE

\* Line 75: err == nil
DecodeSucceeded(dec) == ~dec.err

\* Lines 75-79: which function gave resp and statusCode.
Dispatch(dec, fallback) ==
    IF DecodeSucceeded(dec)
    THEN [out |-> Callback(dec.value), callbackCalls |-> 1, fallbackCalls |-> 0]
    ELSE [out |-> FallbackResult(fallback), callbackCalls |-> 0, fallbackCalls |-> 1]

\* Lines 80-86: the header, the status and the encoded body.
Written(body, configured, d, enc) ==
    [body |-> body, configured |-> configured,
     callbackCalls |-> d.callbackCalls, fallbackCalls |-> d.fallbackCalls,
     contentType |-> "application/json", status |-> d.out.status,
     encodeErr |-> enc.err, written |-> enc.text]

Respond(body, configured, d) == Written(body, configured, d, Marshal(d.out.resp))

\* JSONPayloadHandler[int, int].ServeHTTP on a request with this body.
ServeHTTP(body) ==
    /\ Len(served) < MaxPayloadRequests
    /\ served' = Append(served,
           Respond(body, defaultInvalidJSONPayloadHandler,
                   Dispatch(Decode(body), defaultInvalidJSONPayloadHandler)))
    /\ UNCHANGED << defaultInvalidJSONPayloadHandler, schemaVars, docVars >>

PayloadInit == HandlersIdle /\ SchemaIdle /\ DocIdle

PayloadNext ==
    \/ \E fn \in Fallbacks : SetDefaultInvalidJSONPayloadHandler(fn)
    \/ \E body \in Bodies : ServeHTTP(body)

SpecPayload == PayloadInit /\ [][PayloadNext]_vars

\* ------------------------------------------------------------------ claims

\* The operation stored for route r in document d (a sequence of length 0 or 1).
OperationOf(d, r) ==
    IF r.route \in DOMAIN d.paths /\ SlotOf(r.method) # ""
    THEN d.paths[r.route][SlotOf(r.method)]
    ELSE << >>

HasBodyRef(op, name) ==
    \E k \in 1..Len(op.parameters) :
        /\ op.parameters[k].in = "body"
        /\ op.parameters[k].ref = "#/definitions/" \o name

HasResponseRef(op, name) ==
    200 \in DOMAIN op.responses /\ op.responses[200].ref = "#/definitions/" \o name

\* The walk has run so far without a panic or an overflow, or has ended.
WalkIntact == ~aborted /\ (valid \/ \E i \in Requests : pc[i] = "walk")

\* C1: under any interleaving of the requests to one HandlerFunc handler,
\* initializeDoc is entered at most once, a request that got a document got
\* the one that single run returned, and what a request wrote is that
\* document's encoding with status 200.
C1_BuiltOnce ==
    /\ builds <= 1
    /\ \A i \in Requests :
          /\ pc[i] \in {"walk", "encode", "done"} => builds = 1
          /\ pc[i] \in {"encode", "done"} => valid /\ reqDoc[i] = result /\ result = doc
          /\ pc[i] = "done" =>
                /\ response[i].status = 200
                /\ response[i].contentType = "application/json"
                /\ response[i].body = << MarshalDoc(result) >>

\* A request was served the document while another, which saw done = 0
\* before the build ended, still waits for the Once's lock.
C1_Witness ==
    \E a, b \in Requests :
        /\ pc[a] = "done" /\ pc[b] = "doSlow"
        /\ builds = 1 /\ DOMAIN result.paths # {}

\* C3: the operation of a route whose handler is a JSONPayloadHandler[I, O]
\* has a body parameter referencing I's definition and a 200 response
\* referencing O's.
C3_PayloadHandlerDocumented ==
    \A r \in RouteTable :
        (r.handler.impl = "JSONPayloadHandler" /\ WalkIntact /\ OperationOf(doc, r) # << >>)
        => /\ HasBodyRef(OperationOf(doc, r)[1], getName(r.handler.I[1]))
           /\ HasResponseRef(OperationOf(doc, r)[1], getName(r.handler.O[1]))

\* getProperty returns "no schema" for t.
NoSchema(t) == t # NilType /\ Convert(t).st = "ok" /\ Convert(t).nil

\* C5: a declared body or response type without a schema is left out of the
\* document: the operation has no body parameter (no 200 response) for it.
C5_NoSchemaOmitted ==
    \A r \in RouteTable :
        (WalkIntact /\ OperationOf(doc, r) # << >>)
        => /\ (IsPayloadTyper(r.handler) /\ NoSchema(PayloadType(r.handler)))
                => ~HasBodyRef(OperationOf(doc, r)[1], getName(PayloadType(r.handler)))
           /\ (IsResponseTyper(r.handler) /\ NoSchema(ResponseType(r.handler)))
                => ~HasResponseRef(OperationOf(doc, r)[1], getName(ResponseType(r.handler)))

\* The operation the walk function builds for route r.
ExpectedOperation(r) ==
    PathParamsPart(ResponsePart(PayloadPart(WalkStart(EmptyDoc, r.route), r.handler),
                                r.handler), r.route).op

\* C7: while the walk runs and after it, the paths are the patterns of the
\* routes walked, the slot of every walked route with one of the seven
\* methods holds that route's operation (so later routes of the pattern
\* left it alone), and no other slot is set.
C7_SlotsKept ==
    WalkIntact =>
        /\ DOMAIN doc.paths = {k[2] : k \in walked}
        /\ \A r \in RouteTable :
              IF << r.method, r.route >> \in walked /\ SlotOf(r.method) # ""
              THEN OperationOf(doc, r) = << ExpectedOperation(r) >>
              ELSE OperationOf(doc, r) = << >>

\* The walk ended with two methods of one pattern in the document.
C7_Witness ==
    /\ valid
    /\ \E p \in DOMAIN result.paths :
          Cardinality({sl \in Slots : result.paths[p][sl] # << >>}) >= 2

\* The types the handlers of the route table declare.
DeclaredTypes ==
    {PayloadType(r.handler) : r \in {x \in RouteTable : IsPayloadTyper(x.handler)}}
    \cup {ResponseType(r.handler) : r \in {x \in RouteTable : IsResponseTyper(x.handler)}}

\* Schema s carries nullable exactly where type t has a pointer.
RECURSIVE NullableAtPointers(_, _, _)
NullableAtPointers(t, s, viaPointer) ==
    IF t.kind = "Pointer" THEN NullableAtPointers(Elem(t), s, TRUE)
    ELSE /\ s.nullable = viaPointer
         /\ IF String(t) \in {"uuid.UUID", "date.DateString"} THEN TRUE
            ELSE CASE t.kind \in {"Array", "Slice"} ->
                        s.items # << >> => NullableAtPointers(Elem(t), s.items[1], FALSE)
                   [] t.kind = "Struct" ->
                        \A k \in 1..Len(StructFields(t)) :
                            FieldKey(StructFields(t)[k]) \in DOMAIN s.props
                            => NullableAtPointers(StructFields(t)[k].type,
                                                  s.props[FieldKey(StructFields(t)[k])], FALSE)
                   [] OTHER -> TRUE

\* C8: an entry of the Definitions table is nullable only under the name of
\* a pointer type: the entry of T stays not nullable whatever calls for *T
\* come before or after it, and inside an entry only the schemas of pointer
\* occurrences are nullable.
C8_NullableOnlyAtPointers ==
    \A n \in DOMAIN doc.definitions :
        /\ doc.definitions[n].nullable = HasPrefixAt(n, "*", 1)
        /\ \E t \in DeclaredTypes \ {NilType} :
              getName(t) = n /\ NullableAtPointers(t, doc.definitions[n], FALSE)

\* T and *T were both registered in one build.
C8_Witness ==
    /\ valid
    /\ {"Widget", "*Widget"} \subseteq DOMAIN result.definitions
    /\ result.definitions["*Widget"].nullable
    /\ ~result.definitions["Widget"].nullable

\* C10: a reference emitted for a declared type T that has a schema names an
\* entry of the Definitions table, and that entry is T's schema.
C10_ReferencesResolve ==
    \A r \in RouteTable :
        (WalkIntact /\ OperationOf(doc, r) # << >>)
        => /\ (IsPayloadTyper(r.handler) /\ ~Convert(PayloadType(r.handler)).nil)
                => /\ getName(PayloadType(r.handler)) \in DOMAIN doc.definitions
                   /\ doc.definitions[getName(PayloadType(r.handler))]
                        = Convert(PayloadType(r.handler)).schema
           /\ (IsResponseTyper(r.handler) /\ ~Convert(ResponseType(r.handler)).nil)
                => /\ getName(ResponseType(r.handler)) \in DOMAIN doc.definitions
                   /\ doc.definitions[getName(ResponseType(r.handler))]
                        = Convert(ResponseType(r.handler)).schema

\* The types getProperty calls itself on for t.
Children(t) ==
    IF String(t) \in {"uuid.UUID", "date.DateString"} THEN {}
    ELSE CASE t.kind \in {"Pointer", "Array", "Slice"} -> {Elem(t)}
           [] t.kind = "Struct" -> {StructFields(t)[k].type : k \in 1..Len(StructFields(t))}
           [] OTHER -> {}

\* The types getProperty reaches from the types in S, S included.
RECURSIVE Reach(_)
Reach(S) ==
    LET more == S \cup UNION {Children(t) : t \in S} IN
    IF more = S THEN S ELSE Reach(more)

\* t is, or contains, a struct type that reaches itself through its fields.
ReachesCycle(t) ==
    \E u \in Reach({t}) : u.kind = "Struct" /\ u \in Reach(Children(u))

\* C4: getProperty never panics, whatever the type.
C4_NeverPanics == sPc = "converted" => sResult.st # "panic"

\* The fields of struct type t whose type has a schema.
SupportedFields(t) ==
    {k \in 1..Len(StructFields(t)) : ~Convert(StructFields(t)[k].type).nil}

\* C6: the object schema of a struct type has one property per field of a
\* supported type, under the first segment of the field's json tag.
C6_OnePropertyPerField ==
    (sPc = "converted" /\ sInput.kind = "Struct" /\ sResult.st = "ok"
        /\ String(sInput) \notin {"uuid.UUID", "date.DateString"})
    => /\ Cardinality(DOMAIN sResult.schema.props) = Cardinality(SupportedFields(sInput))
       /\ \A k \in SupportedFields(sInput) :
             SplitFirst(TagGet(StructFields(sInput)[k].tag, "json"), ",")
                 \in DOMAIN sResult.schema.props

\* C9: getProperty does not return for a type that is or contains a
\* self-referential struct (it runs out of stack, unless a nil dereference
\* stops it first), and it does return for every other type; addDefinition
\* calls it whenever the type's own name is not in the table, whatever other
\* names are, and then does not return either.
C9_CycleNeverReturns ==
    /\ sPc = "converted" =>
          /\ ReachesCycle(sInput) => sResult.st # "ok"
          /\ ~ReachesCycle(sInput) => sResult.st # "overflow"
    /\ (sAdded.st # "none" /\ ReachesCycle(sInput) /\ getName(sInput) \notin DOMAIN sDefs)
          => sAdded.called /\ sAdded.st # "ok"

\* getProperty ran out of stack on a self-referential struct, and so did
\* addDefinition although the struct's name was in the table: it was called
\* for a pointer to the struct.
C9_Witness ==
    /\ sInput = PointerTo(NodeT) /\ "Node" \in DOMAIN sDefs
    /\ sPc = "converted" /\ sResult.st = "overflow"
    /\ sAdded.called /\ sAdded.st = "overflow"

\* encoding/json has an encoding for v.
Encodable(v) == v.kind \in {"string", "int"}

\* C2 as stated: a request whose body fails to decode never reaches
\* handlerFunc, and its status and body are the pair the configured
\* fallback returned; one whose body decodes reaches handlerFunc once and
\* the fallback never.
C2_FallbackPairWritten ==
    \A k \in 1..Len(served) :
        IF Decode(served[k].body).err
        THEN /\ served[k].callbackCalls = 0
             /\ served[k].status = FallbackResult(served[k].configured).status
             /\ ~served[k].encodeErr
             /\ served[k].written = Marshal(FallbackResult(served[k].configured).resp).text
        ELSE served[k].fallbackCalls = 0 /\ served[k].callbackCalls = 1

\* C2, amended: as above, the body being the JSON encoding of the
\* fallback's value when it has one and empty when it has none.
C2_FallbackStatusWritten ==
    \A k \in 1..Len(served) :
        IF Decode(served[k].body).err
        THEN /\ served[k].callbackCalls = 0
             /\ served[k].fallbackCalls = 1
             /\ served[k].status = FallbackResult(served[k].configured).status
             /\ served[k].encodeErr = ~Encodable(FallbackResult(served[k].configured).resp)
             /\ served[k].written =
                   IF served[k].encodeErr THEN ""
                   ELSE Marshal(FallbackResult(served[k].configured).resp).text
        ELSE /\ served[k].fallbackCalls = 0 /\ served[k].callbackCalls = 1
             /\ served[k].status = Callback(Decode(served[k].body).value).status

\* A body that does not decode was answered by a fallback the application
\* set, and a body that decodes by handlerFunc.
C2_Witness ==
    \E j, k \in 1..Len(served) :
        /\ Decode(served[j].body).err /\ served[j].configured = "badRequest"
        /\ served[j].status = 400 /\ served[j].written = "\"bad request\"\n"
        /\ ~Decode(served[k].body).err /\ served[k].callbackCalls = 1

====
